---- MODULE Spec2Model ----
(***************************************************************************)
(* Model of the package list controller of universal-android-debloater,   *)
(* src/gui/views/list.rs: the List struct, List::update (one action per    *)
(* Message variant), List::filter_package_lists, and the asynchronous      *)
(* tasks List::init_apps_view and List::load_packages whose results come   *)
(* back as messages.                                                       *)
(*                                                                         *)
(* Indices are zero-based as in the source; row i of user u is             *)
(* phone_packages[u + 1][i + 1].  Option<T> is a sequence: <<>> is None    *)
(* and <<x>> is Some(x).  A String is a sequence of characters.            *)
(***************************************************************************)
EXTENDS Integers, Sequences, FiniteSets, Bags, TLC

\* ------------------------------------------------------------------ bounds
\* Largest number of asynchronous tasks (Command::perform) pending at once.
MaxInflight == 2
\* Largest length of Selection::selected_packages and largest sum of the
\* three counters at which a single toggle still selects (the Vec can hold
\* an index more than once, so neither has a bound in the code).
MaxSelected == 3
\* Largest number of Message::LoadUadList the parent view sends in one run.
MaxLoads == 2

\* ------------------------------------------------------------- enumerations
\* u16: the width of the three counters of Selection.
U16 == 65536

None == <<>>
Some(x) == <<x>>

PackageStateALL == {"All", "Enabled", "Disabled", "Uninstalled"}
RemovalALL == {"All", "Recommended", "Unsafe"}
UadListALL == {"All", "Google"}
\* The texts typed into the search box.
SearchInputs == {<<>>, <<"a">>, <<"b">>}

\* ------------------------------------------------------------- device data
\* PackageRow as fetch_packages builds it: not selected, not focused.
Pkg(name, state, removal, list) ==
    [name |-> name, state |-> state, removal |-> removal, uad_list |-> list,
     selected |-> FALSE, current |-> FALSE]

\* The users of the device (User::index of Phone::user_list).
UserList == {0, 1}

\* What load_packages returns: one table per user.  TableA and TableB are
\* two readings of the device; the tables of the two users differ in length
\* in TableA, and TableB has fewer packages for user 0 than TableA.
TableA ==
    << << Pkg(<<"a", "b">>, "Enabled", "Recommended", "Google"),
          Pkg(<<"b">>, "Enabled", "Unsafe", "Oem") >>,
       << Pkg(<<"a", "b">>, "Disabled", "Recommended", "Google") >> >>

TableB ==
    << << Pkg(<<"b">>, "Disabled", "Recommended", "Oem") >>,
       << Pkg(<<"b">>, "Enabled", "Unsafe", "Oem") >> >>

FetchedTables == {TableA, TableB}

\* ------------------------------------------------------------------- state
VARIABLES
    loading_state,            \* List::loading_state: [phase, text]
    uad_lists,                \* List::uad_lists: which catalog is held
    list_update_state,        \* *list_update_state: UadListState
    phone_packages,           \* List::phone_packages
    filtered_packages,        \* List::filtered_packages
    selection,                \* List::selection
    selected_package_state,   \* List::selected_package_state
    selected_removal,         \* List::selected_removal
    selected_list,            \* List::selected_list
    selected_user,            \* List::selected_user (Option of User::index)
    input_value,              \* List::input_value
    current_package_index,    \* List::current_package_index
    settings,                 \* the Settings passed to update
    inflight,                 \* bag of pending Command::perform tasks
    panicked,                 \* a handler indexed out of range or unwrapped None
    loads,                    \* number of Message::LoadUadList handled
    last_outcome              \* history: the last command outcome handled

vars == << loading_state, uad_lists, list_update_state, phone_packages,
           filtered_packages, selection, selected_package_state,
           selected_removal, selected_list, selected_user, input_value,
           current_package_index, settings, inflight, panicked, loads,
           last_outcome >>

\* The fields of List and the caller's list_update_state.
listVars == << loading_state, uad_lists, list_update_state, phone_packages,
               filtered_packages, selection, selected_package_state,
               selected_removal, selected_list, selected_user, input_value,
               current_package_index >>

\* The package data a command outcome or a selection message can change.
dataVars == << phone_packages, selection >>

\* --------------------------------------------------------------- helpers
\* let i_user = self.selected_user.unwrap_or(User { id: 0, index: 0 }).index
i_user == IF selected_user = None THEN 0 ELSE selected_user[1]

\* Whether tbl[u][i] is an element (indexing it does not panic).
InRange(tbl, u, i) ==
    /\ u + 1 \in DOMAIN tbl
    /\ i + 1 \in DOMAIN tbl[u + 1]

\* self.phone_packages[u].len()
TableLen(tbl, u) == Len(tbl[u + 1])

\* DrainEqual removing i only when it is the first element.
DrainHead(vec, i) ==
    IF vec # <<>> /\ Head(vec) = i THEN Tail(vec) ELSE vec

\* vec.drain_filter(|s_i| *s_i == i), dropped at once: every element equal
\* to i is removed.
DrainEqual(vec, i) == SelectSeq(vec, LAMBDA s_i : s_i # i)

\* vec.contains(&i)
Contains(vec, i) == \E k \in DOMAIN vec : vec[k] = i

\* name.contains(&input): substring containment on strings.
StrContains(name, input) ==
    \E k \in 0..(Len(name) - Len(input)) :
        SubSeq(name, k + 1, k + Len(input)) = input

\* core::utils::update_selection_count: the counter of the state p_state
\* goes up by one when add, down by one otherwise; a counter is a u16 and
\* does not go below zero.
update_selection_count(sel, p_state, add) ==
    LET bump(n) == IF add THEN (n + 1) % U16 ELSE IF n > 0 THEN n - 1 ELSE n
    IN  CASE p_state = "Enabled" -> [sel EXCEPT !.enabled = bump(@)]
          [] p_state = "Disabled" -> [sel EXCEPT !.disabled = bump(@)]
          [] p_state = "Uninstalled" -> [sel EXCEPT !.uninstalled = bump(@)]
          [] OTHER -> sel

\* core::uad_lists::Opposite for PackageState: an Enabled package goes to
\* Disabled in disable mode and to Uninstalled otherwise; a package that is
\* not Enabled goes to Enabled.
opposite(state, disable) ==
    CASE state = "Enabled" -> IF disable THEN "Disabled" ELSE "Uninstalled"
      [] state \in {"Disabled", "Uninstalled"} -> "Enabled"
      [] OTHER -> state

\* The ordered list of target users core::sync::action_handler returns for
\* one package: with multi_user_mode one command per user of the device, in
\* user order, each with its target user; otherwise one command with no
\* target user.
action_handler(multi_user_mode) ==
    IF multi_user_mode THEN << Some(0), Some(1) >> ELSE << None >>

\* A pending Command::perform.  kind names the future; msg the message its
\* result is wrapped in; i_user and index are PackageInfo.  Two fields are
\* history: pos is the place of the command in its plan, and stale records
\* that the package table was replaced after the command was dispatched.
Task(kind, remote, msg, tu, index, pos) ==
    [kind |-> kind, remote |-> remote, msg |-> msg, i_user |-> tu,
     index |-> index, pos |-> pos, stale |-> FALSE]

InitTask(remote) ==
    Task("init_apps_view", remote, "LoadPhonePackages", None, 0, 0)
LoadTask == Task("load_packages", FALSE, "ApplyFilters", None, 0, 0)

\* The message that wraps the result of command j of a plan, lines 238-242
\* and 292-296, with the test i == 0 left out.
ResultMessage_AllChange(j) == "ChangePackageState"

\* The message that wraps the result of command j (from 1) of a plan,
\* lines 238-242 and 292-296.
ResultMessage(j) == IF j = 1 THEN "ChangePackageState" ELSE "Nothing"

\* The commands of lines 229-244 and 283-298 for package i.
Commands(i) ==
    LET actions == action_handler(settings.multi_user_mode)
    IN  [j \in DOMAIN actions |->
            Task("adb", FALSE, ResultMessage(j), actions[j], i, j)]

RECURSIVE SeqToBag(_)
SeqToBag(s) ==
    IF s = <<>> THEN EmptyBag ELSE SetToBag({Head(s)}) (+) SeqToBag(Tail(s))

\* Every pending adb command marked as dispatched before the table was
\* replaced.
MarkStale(B) ==
    LET mark(c) == IF c.kind = "adb" THEN [c EXCEPT !.stale = TRUE] ELSE c
        S == BagToSet(B)
        T == {mark(c) : c \in S}
        cnt(X, t) == IF X = {} THEN 0 ELSE B[CHOOSE c \in X : TRUE]
    IN  [t \in T |->
            cnt({c \in S : c = t}, t)
            + cnt({c \in S : c # t /\ mark(c) = t}, t)]

\* Keep with the text test left out.
Keep_NoText(p, list_filter, package_filter, removal_filter, input) ==
    /\ (list_filter = "All" \/ p.uad_list = list_filter)
    /\ (package_filter = "All" \/ p.state = package_filter)
    /\ (removal_filter = "All" \/ p.removal = removal_filter)

\* The closure of filter_package_lists, lines 509-514.
Keep(p, list_filter, package_filter, removal_filter, input) ==
    /\ (list_filter = "All" \/ p.uad_list = list_filter)
    /\ (package_filter = "All" \/ p.state = package_filter)
    /\ (removal_filter = "All" \/ p.removal = removal_filter)
    /\ (input = <<>> \/ StrContains(p.name, input))

\* List::filter_package_lists, lines 501-517, computed over table tbl for
\* user u: enumerate, filter, map to the index, collect.
FilterOf(tbl, u, list_filter, package_filter, removal_filter, input) ==
    LET row == tbl[u + 1]
        keep(i) == Keep(row[i + 1], list_filter, package_filter,
                        removal_filter, input)
        all == [k \in 1..Len(row) |-> k - 1]
    IN  SelectSeq(all, keep)

\* The history variable last_outcome: res is "Ok" or "Err" for the last
\* result handled by ChangePackageState ("None" before any); for "Ok",
\* user and index name the row changed and before its state before the
\* change; prev is the before of the result handled just before it when
\* that one was "Ok" for the same row, and "" otherwise.
Outcome(res, user, index, before, prev) ==
    [res |-> res, user |-> user, index |-> index, before |-> before,
     prev |-> prev]

NoOutcome == Outcome("None", 0, 0, "", "")

\* ------------------------------------------------------------------- Init
\* List::default(): FindingPhones, everything else empty or None.  The
\* settings are the caller's and stay as they are for the run.
Init ==
    /\ loading_state = [phase |-> "FindingPhones", text |-> <<>>]
    /\ uad_lists = "empty"
    /\ list_update_state = "Downloading"
    /\ phone_packages = <<>>
    /\ filtered_packages = <<>>
    /\ selection = [uninstalled |-> 0, enabled |-> 0, disabled |-> 0,
                    selected_packages |-> <<>>]
    /\ selected_package_state = "None"
    /\ selected_removal = "None"
    /\ selected_list = "None"
    /\ selected_user = None
    /\ input_value = <<>>
    /\ current_package_index = 0
    /\ settings \in [expert_mode : BOOLEAN, multi_user_mode : BOOLEAN,
                     disable_mode : BOOLEAN]
    /\ inflight = EmptyBag
    /\ panicked = FALSE
    /\ loads = 0
    /\ last_outcome = NoOutcome

\* A handler panicked: the process is gone.
Panic ==
    /\ panicked' = TRUE
    /\ UNCHANGED << listVars, settings, inflight, loads, last_outcome >>

Take(c) == inflight (-) SetToBag({c})
Pending(kind) == {c \in BagToSet(inflight) : c.kind = kind}

\* --------------------------------------------------------- loading phases
\* Message::LoadUadList(remote), lines 111-123: sent by the parent view
\* when a device is chosen, and by the "No internet?" button of the
\* DownloadingList view (line 566) with remote = false.
LoadUadList(remote) ==
    /\ ~panicked
    /\ loads < MaxLoads
    /\ BagCardinality(inflight) < MaxInflight
    /\ loading_state' = [phase |-> "DownloadingList", text |-> <<>>]
    /\ inflight' = inflight (+) SetToBag({InitTask(remote)})
    /\ loads' = loads + 1
    /\ UNCHANGED << uad_lists, list_update_state, phone_packages,
                    filtered_packages, selection, selected_package_state,
                    selected_removal, selected_list, selected_user,
                    input_value, current_package_index, settings, panicked,
                    last_outcome >>

\* init_apps_view reporting Done for the fallback too.
init_apps_view_AlwaysDone(loaded) ==
    << IF loaded THEN "remote" ELSE "embedded", "Done" >>

\* List::init_apps_view, lines 537-555: the catalog and its status.
init_apps_view(loaded) ==
    IF loaded THEN << "remote", "Done" >> ELSE << "embedded", "Failed" >>

\* init_apps_view completes and Message::LoadPhonePackages, lines 124-133,
\* is handled.  loaded: whether load_debloat_lists returned Ok.
LoadPhonePackages(c, loaded) ==
    /\ ~panicked
    /\ c \in Pending("init_apps_view")
    /\ LET list_box == init_apps_view(loaded)
       IN  /\ loading_state' = [phase |-> "LoadingPackages", text |-> <<>>]
           /\ uad_lists' = list_box[1]
           /\ list_update_state' = list_box[2]
    /\ inflight' = Take(c) (+) SetToBag({LoadTask})
    /\ UNCHANGED << phone_packages, filtered_packages, selection,
                    selected_package_state, selected_removal, selected_list,
                    selected_user, input_value, current_package_index,
                    settings, panicked, loads, last_outcome >>

\* load_packages completes and Message::ApplyFilters(packages), lines
\* 134-144, is handled.
ApplyFilters(c, packages) ==
    /\ ~panicked
    /\ c \in Pending("load_packages")
    /\ IF ~(i_user + 1 \in DOMAIN packages)
       THEN Panic
       ELSE /\ phone_packages' = packages
            /\ selected_package_state' = "Enabled"
            /\ selected_removal' = "Recommended"
            /\ selected_list' = "All"
            /\ selected_user' = Some(0)
            /\ filtered_packages' =
                   FilterOf(packages, 0, "All", "Enabled", "Recommended",
                            input_value)
            /\ loading_state' = [phase |-> "Ready", text |-> <<>>]
            /\ inflight' = MarkStale(Take(c))
            /\ last_outcome' = NoOutcome
            /\ UNCHANGED << uad_lists, list_update_state, selection,
                            input_value, current_package_index, settings,
                            panicked, loads >>

\* ------------------------------------------------------------ Ready phase
\* The widgets that send the messages below exist only in the Ready view
\* (view, lines 366-497).
Ready == ~panicked /\ loading_state.phase = "Ready"

\* The indices of the rows on screen: view sends Message::List(*i, msg)
\* for the rows of filtered_packages only (lines 412-421).
Visible == {filtered_packages[k] : k \in DOMAIN filtered_packages}

\* The loop of Message::ToggleAllSelected over the filtered view, lines
\* 146-168: rows is the active user's table, sel the selection.
RECURSIVE ToggleAllLoop(_, _, _, _)
ToggleAllLoop(view, rows, sel, selected) ==
    IF view = <<>>
    THEN [rows |-> rows, sel |-> sel]
    ELSE LET i == Head(view)
             state == rows[i + 1].state
             member == Contains(sel.selected_packages, i)
             sel1 ==
                 IF ~selected
                 THEN IF member
                      THEN [update_selection_count(sel, state, FALSE)
                               EXCEPT !.selected_packages = DrainEqual(@, i)]
                      ELSE sel
                 ELSE IF ~member
                      THEN update_selection_count(
                               [sel EXCEPT !.selected_packages = Append(@, i)],
                               state, TRUE)
                      ELSE sel
         IN  ToggleAllLoop(Tail(view),
                           [rows EXCEPT ![i + 1].selected = selected],
                           sel1, selected)

\* Message::ToggleAllSelected(selected), lines 145-170.
ToggleAllSelected(selected) ==
    /\ Ready
    /\ selected => selection.enabled + selection.disabled
                       + selection.uninstalled < MaxSelected
    /\ LET r == ToggleAllLoop(filtered_packages, phone_packages[i_user + 1],
                              selection, selected)
       IN  /\ phone_packages' = [phone_packages EXCEPT ![i_user + 1] = r.rows]
           /\ selection' = r.sel
    /\ UNCHANGED << loading_state, uad_lists, list_update_state,
                    filtered_packages, selected_package_state,
                    selected_removal, selected_list, selected_user,
                    input_value, current_package_index, settings, inflight,
                    panicked, loads, last_outcome >>

\* Refilter with filter_package_lists left out.
Refilter_Stale(list_filter, package_filter, removal_filter, input) ==
    /\ selected_list' = list_filter
    /\ selected_package_state' = package_filter
    /\ selected_removal' = removal_filter
    /\ input_value' = input
    /\ UNCHANGED << filtered_packages, loading_state, uad_lists,
                    list_update_state, phone_packages, selection,
                    selected_user, current_package_index, settings,
                    inflight, panicked, loads, last_outcome >>

\* The four filter messages, lines 171-190: the field is set and
\* filter_package_lists runs.
Refilter(list_filter, package_filter, removal_filter, input) ==
    /\ selected_list' = list_filter
    /\ selected_package_state' = package_filter
    /\ selected_removal' = removal_filter
    /\ input_value' = input
    /\ filtered_packages' =
           FilterOf(phone_packages, selected_user[1], list_filter,
                    package_filter, removal_filter, input)
    /\ UNCHANGED << loading_state, uad_lists, list_update_state,
                    phone_packages, selection, selected_user,
                    current_package_index, settings, inflight, panicked,
                    loads, last_outcome >>

\* Message::SearchInputChanged(letter), lines 171-175.
SearchInputChanged(letter) ==
    /\ Ready
    /\ Refilter(selected_list, selected_package_state, selected_removal, letter)

\* Message::ListSelected(list), lines 176-180.
ListSelected(list) ==
    /\ Ready
    /\ Refilter(list, selected_package_state, selected_removal, input_value)

\* Message::PackageStateSelected(package_state), lines 181-185.
PackageStateSelected(package_state) ==
    /\ Ready
    /\ Refilter(selected_list, package_state, selected_removal, input_value)

\* Message::RemovalSelected(removal), lines 186-190.
RemovalSelected(removal) ==
    /\ Ready
    /\ Refilter(selected_list, selected_package_state, removal, input_value)

\* Refused with the expert_mode test left out of the condition's second
\* half: only Unsafe packages in expert mode are refused.
Refused_NoGate(package) == package.removal = "Unsafe" /\ settings.expert_mode

\* The Unsafe gate of line 200.
Refused(package) == package.removal = "Unsafe" /\ ~settings.expert_mode

\* The selection after lines 205-216 for package i_package, whose selected
\* flag has just been set to toggle.
ToggleOne(sel, i_package, p_state, toggle) ==
    update_selection_count(
        [sel EXCEPT !.selected_packages =
            IF toggle THEN Append(@, i_package) ELSE DrainEqual(@, i_package)],
        p_state, toggle)

\* Message::List(i_package, RowMessage::ToggleSelection(toggle)), lines
\* 191-219.  PackageRow::update (line 192) changes nothing of the row.
ToggleSelection(i_package, toggle) ==
    /\ Ready
    /\ i_package \in Visible
    /\ toggle => /\ Len(selection.selected_packages) < MaxSelected
                 /\ selection.enabled + selection.disabled
                        + selection.uninstalled < MaxSelected
    /\ LET package == phone_packages[i_user + 1][i_package + 1]
       IN  IF Refused(package)
           THEN /\ phone_packages' =
                       [phone_packages EXCEPT
                           ![i_user + 1][i_package + 1].selected = FALSE]
                /\ UNCHANGED selection
           ELSE /\ phone_packages' =
                       [phone_packages EXCEPT
                           ![i_user + 1][i_package + 1].selected = toggle]
                /\ selection' =
                       ToggleOne(selection, i_package, package.state, toggle)
    /\ UNCHANGED << loading_state, uad_lists, list_update_state,
                    filtered_packages, selected_package_state,
                    selected_removal, selected_list, selected_user,
                    input_value, current_package_index, settings, inflight,
                    panicked, loads, last_outcome >>

\* Message::List(i_package, RowMessage::ActionPressed), lines 220-246.
ActionPressed(i_package) ==
    /\ Ready
    /\ i_package \in Visible
    /\ LET commands == SeqToBag(Commands(i_package))
       IN  /\ BagCardinality(inflight (+) commands) <= MaxInflight
           /\ inflight' = inflight (+) commands
    /\ UNCHANGED << listVars, settings, panicked, loads, last_outcome >>

\* Message::List(i_package, RowMessage::PackagePressed), lines 247-255.
PackagePressed(i_package) ==
    /\ Ready
    /\ i_package \in Visible
    /\ IF current_package_index # i_package
          /\ ~InRange(phone_packages, i_user, current_package_index)
       THEN Panic
       ELSE /\ phone_packages' =
                   [phone_packages EXCEPT ![i_user + 1] =
                       [k \in DOMAIN @ |->
                           IF k = i_package + 1
                           THEN [@[k] EXCEPT !.current = TRUE]
                           ELSE IF k = current_package_index + 1
                                THEN [@[k] EXCEPT !.current = FALSE]
                                ELSE @[k]]]
            /\ current_package_index' = i_package
            /\ UNCHANGED << loading_state, uad_lists, list_update_state,
                            filtered_packages, selection,
                            selected_package_state, selected_removal,
                            selected_list, selected_user, input_value,
                            settings, inflight, panicked, loads, last_outcome >>

\* InBatch with the two tests exchanged.
InBatch_Exchanged(action, state) ==
    IF action = "Remove" THEN state # "Enabled" ELSE state = "Enabled"

\* The drain_filter of lines 261-272: whether index i of the selection
\* stays in the batch of the bulk action.
InBatch(action, state) ==
    IF action = "Remove" THEN state = "Enabled" ELSE state # "Enabled"

\* The commands of the bulk action for the indices of batch, in order.
RECURSIVE BatchCommands(_)
BatchCommands(batch) ==
    IF batch = <<>> THEN EmptyBag
    ELSE SeqToBag(Commands(Head(batch))) (+) BatchCommands(Tail(batch))

\* Message::ApplyActionOnSelection(action), lines 258-301.
ApplyActionOnSelection(action) ==
    /\ Ready
    /\ IF \E k \in DOMAIN selection.selected_packages :
             ~InRange(phone_packages, i_user, selection.selected_packages[k])
       THEN Panic
       ELSE LET keep(i) ==
                    InBatch(action, phone_packages[i_user + 1][i + 1].state)
                batch == SelectSeq(selection.selected_packages, keep)
                commands == BatchCommands(batch)
            IN  /\ BagCardinality(inflight (+) commands) <= MaxInflight
                /\ inflight' = inflight (+) commands
                /\ UNCHANGED << listVars, settings, panicked, loads,
                                last_outcome >>

\* Message::UserSelected(user), lines 302-313.
UserSelected(user) ==
    /\ Ready
    /\ IF \E k \in DOMAIN selection.selected_packages :
             ~InRange(phone_packages, user, selection.selected_packages[k])
       THEN Panic
       ELSE LET cleared ==
                    [phone_packages EXCEPT ![i_user + 1] =
                        [k \in DOMAIN @ |-> [@[k] EXCEPT !.selected = FALSE]]]
                marked ==
                    [cleared EXCEPT ![user + 1] =
                        [k \in DOMAIN @ |->
                            IF Contains(selection.selected_packages, k - 1)
                            THEN [@[k] EXCEPT !.selected = TRUE]
                            ELSE @[k]]]
            IN  /\ phone_packages' = marked
                /\ selected_user' = Some(user)
                /\ filtered_packages' =
                       FilterOf(marked, user, selected_list,
                                selected_package_state, selected_removal,
                                input_value)
                /\ UNCHANGED << loading_state, uad_lists, list_update_state,
                                selection, selected_package_state,
                                selected_removal, selected_list, input_value,
                                current_package_index, settings, inflight,
                                panicked, loads, last_outcome >>

\* ------------------------------------------------------- command outcomes
\* The user whose row a successful outcome changes, lines 319-328.
TargetUser(p) ==
    IF ~settings.multi_user_mode \/ p.i_user = None
    THEN i_user
    ELSE p.i_user[1]

\* Applies with every result taken for Ok.
Applies_Always(ok) == TRUE

\* if let Ok(CommandType::PackageManager(p)) = res, line 315.
Applies(ok) == ok

\* NewState with disable_mode never read.
NewState_NoDisable(state) == opposite(state, FALSE)

\* package.state.opposite(settings.device.disable_mode), lines 320 and
\* 323-326.
NewState(state) == opposite(state, settings.disable_mode)

\* Message::ChangePackageState(res), lines 314-335, for the result of the
\* pending command p: ok is whether perform_adb_commands returned Ok.
ChangePackageState(p, ok) ==
    /\ ~panicked
    /\ p \in Pending("adb")
    /\ p.msg = "ChangePackageState"
    /\ IF ~Applies(ok)
       THEN /\ inflight' = Take(p)
            /\ last_outcome' = Outcome("Err", 0, p.index, "", "")
            /\ UNCHANGED << listVars, settings, panicked, loads >>
       ELSE IF \/ ~InRange(phone_packages, i_user, p.index)
               \/ ~InRange(phone_packages, TargetUser(p), p.index)
               \/ selected_user = None
       THEN Panic
       ELSE LET package == phone_packages[i_user + 1][p.index + 1]
                counted == update_selection_count(selection, package.state, FALSE)
                tu == TargetUser(p)
                before == phone_packages[tu + 1][p.index + 1].state
                changed ==
                    [phone_packages EXCEPT ![tu + 1][p.index + 1] =
                        [@ EXCEPT !.state = NewState(before),
                                  !.selected = FALSE]]
            IN  /\ phone_packages' = changed
                /\ selection' =
                       [counted EXCEPT
                           !.selected_packages = DrainEqual(@, p.index)]
                /\ filtered_packages' =
                       FilterOf(changed, selected_user[1], selected_list,
                                selected_package_state, selected_removal,
                                input_value)
                /\ inflight' = Take(p)
                /\ last_outcome' =
                       Outcome("Ok", tu, p.index, before,
                               IF /\ last_outcome.res = "Ok"
                                  /\ last_outcome.user = tu
                                  /\ last_outcome.index = p.index
                               THEN last_outcome.before
                               ELSE "")
                /\ UNCHANGED << loading_state, uad_lists, list_update_state,
                                selected_package_state, selected_removal,
                                selected_list, selected_user, input_value,
                                current_package_index, settings, panicked,
                                loads >>

\* The package table, selection and filtered view Message::ChangePackageState,
\* lines 314-335, leaves when it handles the result ok of command p on the
\* table, selection and view of st, with every index in range.
ChangePackageStateOf(st, p, ok) ==
    IF ~Applies(ok)
    THEN st
    ELSE LET package == st.phone_packages[i_user + 1][p.index + 1]
             counted ==
                 update_selection_count(st.selection, package.state, FALSE)
             tu == TargetUser(p)
             changed ==
                 [st.phone_packages EXCEPT ![tu + 1][p.index + 1] =
                     [@ EXCEPT !.state = NewState(@),
                               !.selected = FALSE]]
         IN  [phone_packages |-> changed,
              selection |->
                  [counted EXCEPT
                      !.selected_packages = DrainEqual(@, p.index)],
              filtered_packages |->
                  FilterOf(changed, selected_user[1], selected_list,
                           selected_package_state, selected_removal,
                           input_value)]

\* Message::Nothing, line 336: the result of a command that is not the
\* first of its plan (lines 241, 295).
Nothing(p) ==
    /\ ~panicked
    /\ p \in Pending("adb")
    /\ p.msg = "Nothing"
    /\ inflight' = Take(p)
    /\ UNCHANGED << listVars, settings, panicked, loads, last_outcome >>

\* The indices a restore notification of the parent view can carry.
PackageIndexes == 0..1

\* Message::RestoringDevice(output), lines 99-110: sent by the parent view
\* for the progress of a device restore.
RestoringDevice(ok, index) ==
    /\ ~panicked
    /\ IF ok /\ ~InRange(phone_packages, i_user, index)
       THEN Panic
       ELSE /\ loading_state' =
                   [phase |-> "RestoringDevice",
                    text |-> IF ok
                             THEN phone_packages[i_user + 1][index + 1].name
                             ELSE << "Error [TODO]" >>]
            /\ UNCHANGED << uad_lists, list_update_state, phone_packages,
                            filtered_packages, selection,
                            selected_package_state, selected_removal,
                            selected_list, selected_user, input_value,
                            current_package_index, settings, inflight,
                            panicked, loads, last_outcome >>

\* --------------------------------------------------------- specifications
\* The results of the loading tasks: a pending task completes and its
\* message is handled.  catalogs: the outcomes of load_debloat_lists.
LoadResults(catalogs) ==
    \/ \E c \in BagToSet(inflight), loaded \in catalogs :
           LoadPhonePackages(c, loaded)
    \/ \E c \in BagToSet(inflight), packages \in FetchedTables :
           ApplyFilters(c, packages)

\* The results of the device commands, in any order.
CommandResults ==
    \/ \E p \in BagToSet(inflight), ok \in BOOLEAN : ChangePackageState(p, ok)
    \/ \E p \in BagToSet(inflight) : Nothing(p)

\* The package actions of the Ready view.
PackageActions ==
    \/ \E i \in PackageIndexes : ActionPressed(i)
    \/ \E action \in {"Remove", "Restore"} : ApplyActionOnSelection(action)

\* The selection messages of the Ready view.
SelectionMessages ==
    \/ \E selected \in BOOLEAN : ToggleAllSelected(selected)
    \/ \E i \in PackageIndexes, toggle \in BOOLEAN : ToggleSelection(i, toggle)

\* One device session: the remote catalog is loaded once, then the operator
\* selects, clears the state and removal filters, switches user and acts on
\* packages while command results come back in any order.
Next ==
    \/ \E remote \in BOOLEAN : loads = 0 /\ LoadUadList(remote)
    \/ LoadResults({TRUE})
    \/ SelectionMessages
    \/ PackageStateSelected("All")
    \/ RemovalSelected("All")
    \/ \E user \in UserList : UserSelected(user)
    \/ PackageActions
    \/ CommandResults

Spec == Init /\ [][Next]_vars

\* The operator works on the selection of one user with every filter
\* field: the remote catalog is loaded once, then selection and filter
\* messages only.
FilterMessages ==
    \/ \E letter \in SearchInputs : SearchInputChanged(letter)
    \/ \E list \in UadListALL : ListSelected(list)
    \/ \E package_state \in PackageStateALL : PackageStateSelected(package_state)
    \/ \E removal \in RemovalALL : RemovalSelected(removal)

NextSelect ==
    \/ \E remote \in BOOLEAN : loads = 0 /\ LoadUadList(remote)
    \/ LoadResults({TRUE})
    \/ SelectionMessages
    \/ FilterMessages

SpecSelect == Init /\ [][NextSelect]_vars

\* A session with reloads: the parent view sends LoadUadList again while
\* the operator selects and acts on packages, so that command results can
\* arrive after the package table has been replaced.
NextReload ==
    \/ \E remote \in BOOLEAN : LoadUadList(remote)
    \/ LoadResults({TRUE})
    \/ SelectionMessages
    \/ PackageActions
    \/ CommandResults

SpecReload == Init /\ [][NextReload]_vars

\* The operator filters the tables of both users while package states
\* change: the remote catalog is loaded once, then filter messages, user
\* switches, row actions and their results.
NextFilter ==
    \/ \E remote \in BOOLEAN : loads = 0 /\ LoadUadList(remote)
    \/ LoadResults({TRUE})
    \/ FilterMessages
    \/ \E user \in UserList : UserSelected(user)
    \/ \E i \in PackageIndexes : ActionPressed(i)
    \/ CommandResults

SpecFilter == Init /\ [][NextFilter]_vars

\* Whether no adb command is pending.
Idle == Pending("adb") = {}

\* Bulk removal: the remote catalog is loaded once; while no command is
\* pending the operator selects, clears the state and removal filters,
\* switches user, and applies Remove to a non-empty selection that holds
\* Enabled packages only; every first command succeeds.
BulkUi ==
    \/ \E selected \in BOOLEAN : Idle /\ ToggleAllSelected(selected)
    \/ \E i \in PackageIndexes, toggle \in BOOLEAN :
          Idle /\ ToggleSelection(i, toggle)
    \/ Idle /\ PackageStateSelected("All")
    \/ Idle /\ RemovalSelected("All")
    \/ \E user \in UserList : Idle /\ UserSelected(user)

BulkRemove ==
    /\ Idle
    /\ selection.selected_packages # <<>>
    /\ \A k \in DOMAIN selection.selected_packages :
          /\ InRange(phone_packages, i_user, selection.selected_packages[k])
          /\ phone_packages[i_user + 1][selection.selected_packages[k] + 1].state
                 = "Enabled"
    /\ ApplyActionOnSelection("Remove")

BulkResults ==
    \/ \E p \in BagToSet(inflight) : ChangePackageState(p, TRUE)
    \/ \E p \in BagToSet(inflight) : Nothing(p)

NextBulk ==
    \/ \E remote \in BOOLEAN : loads = 0 /\ LoadUadList(remote)
    \/ LoadResults({TRUE})
    \/ BulkUi
    \/ BulkRemove
    \/ BulkResults

\* The runtime completes every command it was handed and delivers the
\* message of its result.
SpecBulk == Init /\ [][NextBulk]_vars /\ WF_vars(BulkResults)

\* Loading: the catalog is requested up to MaxLoads times (device chosen,
\* "No internet?" button, reload from Ready), load_debloat_lists succeeds
\* or fails, and the operator switches user between loads.
NextLoad ==
    \/ \E remote \in BOOLEAN : LoadUadList(remote)
    \/ LoadResults(BOOLEAN)
    \/ \E user \in UserList : UserSelected(user)

\* The runtime completes init_apps_view and load_packages and delivers
\* their messages.
SpecLoad == Init /\ [][NextLoad]_vars /\ WF_vars(LoadResults(BOOLEAN))

\* One device session in which every checkbox message is the negation of
\* the selected flag the row shows: the remote catalog is loaded once, then
\* the operator selects, clears the state and removal filters, switches
\* user and acts on packages while command results come back in any order.
NextUsers ==
    \/ \E remote \in BOOLEAN : loads = 0 /\ LoadUadList(remote)
    \/ LoadResults({TRUE})
    \/ \E selected \in BOOLEAN : ToggleAllSelected(selected)
    \/ \E i \in PackageIndexes :
          /\ InRange(phone_packages, i_user, i)
          /\ ToggleSelection(i, ~phone_packages[i_user + 1][i + 1].selected)
    \/ PackageStateSelected("All")
    \/ RemovalSelected("All")
    \/ \E user \in UserList : UserSelected(user)
    \/ PackageActions
    \/ CommandResults

SpecUsers == Init /\ [][NextUsers]_vars

\* Commands dispatched for user 0 only: the remote catalog is loaded once,
\* a row action is pressed while user 0 is the active user, the operator
\* switches user at any time and the results come back in any order.
NextSwitch ==
    \/ \E remote \in BOOLEAN : loads = 0 /\ LoadUadList(remote)
    \/ LoadResults({TRUE})
    \/ PackageStateSelected("All")
    \/ RemovalSelected("All")
    \/ \E user \in UserList : UserSelected(user)
    \/ \E i \in PackageIndexes : i_user = 0 /\ ActionPressed(i)
    \/ CommandResults

SpecSwitch == Init /\ [][NextSwitch]_vars

\* Restore notifications and reloads: the catalog is requested up to
\* MaxLoads times, the parent view reports the progress of a device
\* restore at any time, and rows are acted on in Ready while results come
\* back in any order.
NextRestore ==
    \/ \E remote \in BOOLEAN : LoadUadList(remote)
    \/ LoadResults({TRUE})
    \/ \E ok \in BOOLEAN, index \in PackageIndexes : RestoringDevice(ok, index)
    \/ \E i \in PackageIndexes : ActionPressed(i)
    \/ CommandResults

SpecRestore == Init /\ [][NextRestore]_vars

\* Users whose tables differ in length: the remote catalog is loaded once,
\* then the operator clears the state and removal filters, selects with
\* toggle-all, focuses rows and switches user.
NextIndex ==
    \/ \E remote \in BOOLEAN : loads = 0 /\ LoadUadList(remote)
    \/ LoadResults({TRUE})
    \/ PackageStateSelected("All")
    \/ RemovalSelected("All")
    \/ \E selected \in BOOLEAN : ToggleAllSelected(selected)
    \/ \E i \in PackageIndexes : PackagePressed(i)
    \/ \E user \in UserList : UserSelected(user)

SpecIndex == Init /\ [][NextIndex]_vars

\* Bulk actions with results in any order and any mix of successes and
\* failures: the remote catalog is loaded once; while no command is pending
\* the operator selects with the checkboxes and toggle-all, clears the
\* state and removal filters, switches user and applies a bulk action.
NextOrder ==
    \/ \E remote \in BOOLEAN : loads = 0 /\ LoadUadList(remote)
    \/ LoadResults({TRUE})
    \/ \E selected \in BOOLEAN : Idle /\ ToggleAllSelected(selected)
    \/ \E i \in PackageIndexes :
          /\ Idle
          /\ InRange(phone_packages, i_user, i)
          /\ ToggleSelection(i, ~phone_packages[i_user + 1][i + 1].selected)
    \/ Idle /\ PackageStateSelected("All")
    \/ Idle /\ RemovalSelected("All")
    \/ \E user \in UserList : Idle /\ UserSelected(user)
    \/ \E action \in {"Remove", "Restore"} :
          Idle /\ ApplyActionOnSelection(action)
    \/ CommandResults

SpecOrder == Init /\ [][NextOrder]_vars

\* ------------------------------------------------------------- properties
States == {"Enabled", "Disabled", "Uninstalled"}

\* The row of the active user at index i.
Row(i) == phone_packages[i_user + 1][i + 1]

\* The indices held in the selection, as a set.
Selected == {selection.selected_packages[k] :
                k \in DOMAIN selection.selected_packages}

\* The counter kept for state st.
Counter(st) ==
    CASE st = "Enabled" -> selection.enabled
      [] st = "Disabled" -> selection.disabled
      [] st = "Uninstalled" -> selection.uninstalled

\* The number of selected indices whose package of the active user is in
\* state st now.
Recount(st) ==
    Cardinality({i \in Selected :
                    /\ InRange(phone_packages, i_user, i)
                    /\ Row(i).state = st})

\* C1: in the Ready phase, after any sequence of single toggles and
\* toggle-all, each of the three counters equals the number of indices of
\* the selection whose package of the active user has that state.
C1_CountersMatchSelection ==
    Ready => \A st \in States : Counter(st) = Recount(st)

\* C2: a single toggle to selected = true on an Unsafe package while
\* expert_mode is false leaves the selected flag false and leaves the
\* selection set and the three counters unchanged.
C2_UnsafeGate ==
    [][\A i \in PackageIndexes :
          ( /\ ToggleSelection(i, TRUE)
            /\ Row(i).removal = "Unsafe"
            /\ ~settings.expert_mode )
          => ( /\ ~phone_packages'[i_user + 1][i + 1].selected
               /\ selection' = selection )]_vars

\* An Unsafe package is on screen without expert mode, is held in the
\* selection (put there by toggle-all) and its flag has been reset by a
\* refused toggle.
C2_Witness ==
    /\ Ready
    /\ ~settings.expert_mode
    /\ \E i \in Visible :
          /\ Row(i).removal = "Unsafe"
          /\ ~Row(i).selected
          /\ i \in Selected

\* C3: the result of a command that is not the first of its plan changes
\* no package record, nor the selection set, nor the counters, whether the
\* plan was dispatched by the row action or by the bulk action.
C3_OnlyFirstPairChanges ==
    [][\A p \in BagToSet(inflight) :
          (p.kind = "adb" /\ p.pos > 1 /\ inflight' = Take(p))
          => UNCHANGED << phone_packages, selection >>]_vars

\* In multi-user mode both commands of a plan have been answered: the first
\* changed a row and the second has been taken from the pending commands.
C3_Witness ==
    /\ settings.multi_user_mode
    /\ last_outcome.res = "Ok"
    /\ inflight = EmptyBag

\* The state the remove action gives an Enabled package.
Removed == IF settings.disable_mode THEN "Disabled" ELSE "Uninstalled"

\* Two results in a row were Ok for the same row.
RoundTrip == last_outcome.res = "Ok" /\ last_outcome.prev # ""

\* The state of the row of the last Ok result.
Outcome_state ==
    phone_packages[last_outcome.user + 1][last_outcome.index + 1].state

\* C6 as stated: after a successful remove and a successful restore of a
\* package, in either order, the package is in its original state again.
C6_RoundTripOriginal ==
    (~panicked /\ RoundTrip) => Outcome_state = last_outcome.prev

\* C6 amended: the two results bring an Enabled package back to Enabled,
\* and leave a package that was not Enabled in the state remove gives under
\* disable_mode (Disabled in disable mode, Uninstalled otherwise): it is
\* the original state only for Enabled, for Disabled in disable mode and
\* for Uninstalled outside it.
C6_RoundTrip ==
    (~panicked /\ RoundTrip)
    => Outcome_state =
          IF last_outcome.prev = "Enabled" THEN "Enabled" ELSE Removed

\* A package that was Disabled has been restored and then removed outside
\* disable mode.
C6_Witness ==
    /\ ~panicked
    /\ RoundTrip
    /\ last_outcome.prev = "Disabled"
    /\ ~settings.disable_mode

\* The commands pending after a step that were not pending before it.
Dispatched == {c \in BagToSet(inflight') :
                  inflight'[c] > (IF c \in BagToSet(inflight)
                                  THEN inflight[c] ELSE 0)}

\* C8: the bulk action dispatches commands only for selected indices whose
\* state matches the direction (Remove: Enabled; Restore: not Enabled) and
\* changes no package record, selection membership or counter.
C8_BulkDirection ==
    [][\A action \in {"Remove", "Restore"} :
          ApplyActionOnSelection(action)
          => /\ UNCHANGED << phone_packages, selection >>
             /\ \A c \in Dispatched :
                   /\ c.index \in Selected
                   /\ (action = "Remove") <=> (Row(c.index).state = "Enabled")]_vars

\* The selection holds an Enabled and a not Enabled package of the active
\* user, and commands are pending for one of the two only.
C8_Witness ==
    /\ Ready
    /\ \E i, j \in Selected :
          /\ InRange(phone_packages, i_user, i)
          /\ InRange(phone_packages, i_user, j)
          /\ Row(i).state = "Enabled"
          /\ Row(j).state # "Enabled"
          /\ \E c \in Pending("adb") : c.index = i
          /\ \A c \in Pending("adb") : c.index # j

\* C9: a failed command result changes no package record of any user, nor
\* the selection set, nor the counters, and dispatches no command again.
C9_FailureChangesNothing ==
    [][\A p \in BagToSet(inflight) :
          ChangePackageState(p, FALSE)
          => /\ UNCHANGED << phone_packages, selection >>
             /\ ~panicked'
             /\ inflight' = Take(p)]_vars

\* The last result handled was a failure for a package that is still
\* selected.
C9_Witness ==
    /\ Ready
    /\ last_outcome.res = "Err"
    /\ last_outcome.index \in Selected
    /\ InRange(phone_packages, i_user, last_outcome.index)
    /\ Row(last_outcome.index).selected

\* C4: the result of a command dispatched before a reload and delivered
\* after the package table has been replaced is discarded: it changes no
\* record of the new table, nor the selection set, nor the counters, and
\* indexes nothing outside the new table.
C4_StaleResultDiscarded ==
    [][\A p \in BagToSet(inflight), ok \in BOOLEAN :
          (p.stale /\ ChangePackageState(p, ok))
          => /\ UNCHANGED << phone_packages, selection >>
             /\ ~panicked']_vars

\* Whether text occurs in name: name is some prefix, then text, then some
\* suffix.
Occurs(text, name) ==
    \E a \in 0..Len(name) :
        /\ a + Len(text) <= Len(name)
        /\ \A k \in 1..Len(text) : name[a + k] = text[k]

\* Whether record p satisfies the four predicates of the filter state.
Matches(p) ==
    /\ selected_list \in {"All", p.uad_list}
    /\ selected_package_state \in {"All", p.state}
    /\ selected_removal \in {"All", p.removal}
    /\ Occurs(input_value, p.name)

\* C5: the filtered view is the strictly increasing sequence of exactly the
\* indices of the active user's table whose records satisfy the list,
\* state, removal and text predicates; with the three enum predicates at
\* All and an empty text it is every index of the table in order.
C5_FilteredView ==
    Ready =>
        LET rows == phone_packages[i_user + 1]
            v == filtered_packages
        IN  /\ \A k \in 1..(Len(v) - 1) : v[k] < v[k + 1]
            /\ {v[k] : k \in DOMAIN v}
                   = {i \in 0..(Len(rows) - 1) : Matches(rows[i + 1])}
            /\ ( /\ selected_list = "All"
                 /\ selected_package_state = "All"
                 /\ selected_removal = "All"
                 /\ input_value = <<>> )
               => v = [k \in 1..Len(rows) |-> k - 1]

\* All four predicates are set and keep one of the two packages of the
\* active user; the other package is rejected by the list, removal and
\* text predicates.
C5_Witness ==
    /\ Ready
    /\ selected_list = "Google"
    /\ selected_package_state = "Enabled"
    /\ selected_removal = "Recommended"
    /\ input_value = <<"a">>
    /\ Len(phone_packages[i_user + 1]) = 2
    /\ filtered_packages = <<0>>

\* Whether a command of the bulk action is pending for package i.
BulkPending(i) == \E c \in Pending("adb") : c.index = i

\* Every outcome has been delivered, package i of the active user is no
\* longer Enabled (Uninstalled unless disable_mode), the selection is empty
\* and the three counters are zero.
BulkDone(i) ==
    /\ Idle
    /\ InRange(phone_packages, i_user, i)
    /\ Row(i).state # "Enabled"
    /\ ~settings.disable_mode => Row(i).state = "Uninstalled"
    /\ selection.selected_packages = <<>>
    /\ selection.enabled = 0
    /\ selection.disabled = 0
    /\ selection.uninstalled = 0

\* C7: after a bulk Remove on a selection of Enabled packages whose first
\* commands all succeed, in whatever order the outcomes are delivered,
\* eventually every package of the batch is no longer Enabled, the
\* selection is empty and the three counters are zero.
C7_BulkRemoveCompletes ==
    \A i \in PackageIndexes : BulkPending(i) ~> BulkDone(i)

\* C10: when load_debloat_lists fails, LoadPhonePackages still receives a
\* catalog (the embedded one), the catalog status becomes Failed, the phase
\* becomes LoadingPackages with load_packages started, and from there the
\* view eventually becomes Ready.
C10_FailedCatalogProceeds ==
    /\ [][\A c \in BagToSet(inflight) :
             LoadPhonePackages(c, FALSE)
             => /\ uad_lists' = "embedded"
                /\ list_update_state' = "Failed"
                /\ loading_state'.phase = "LoadingPackages"
                /\ LoadTask \in BagToSet(inflight')]_vars
    /\ (list_update_state = "Failed"
           /\ loading_state.phase = "LoadingPackages")
       ~> (loading_state.phase = "Ready")

\* The view is Ready with the embedded catalog and the Failed status.
C10_Witness ==
    /\ Ready
    /\ uad_lists = "embedded"
    /\ list_update_state = "Failed"
    /\ phone_packages \in FetchedTables

\* C11: while expert_mode is false, no sequence of single toggles and
\* toggle-all over the filtered view puts an Unsafe package of the active
\* user into the selection or sets its selected flag.
C11_NoUnsafeSelected ==
    (Ready /\ ~settings.expert_mode) =>
        \A i \in 0..(TableLen(phone_packages, i_user) - 1) :
            Row(i).removal = "Unsafe"
            => /\ ~Row(i).selected
               /\ i \notin Selected

\* C12: in every Ready state, after any sequence of toggles, filter
\* changes, active-user switches, single and bulk actions and command
\* outcomes, each counter equals the number of indices of the selection
\* whose package in the active user's table has that state.
C12_CountersMatchAlways ==
    \A st \in States :
        (Ready /\ selected_user # None) => Recount(st) = Counter(st)

\* C13: once the view has been Ready, the stored filtered view equals the
\* filter recomputed over the active user's table with the current filter
\* fields, after filter changes, user switches and command outcomes,
\* including an outcome that changes another user's row.
C13_ViewNeverStale ==
    selected_user # None =>
        filtered_packages =
            FilterOf(phone_packages, i_user, selected_list,
                     selected_package_state, selected_removal, input_value)

\* A successful outcome has changed the row of user 0 while user 1 is the
\* active user and a state filter is set.
C13_Witness ==
    /\ Ready
    /\ settings.multi_user_mode
    /\ last_outcome.res = "Ok"
    /\ last_outcome.user = 0
    /\ i_user = 1
    /\ selected_package_state = "Enabled"
    /\ inflight = EmptyBag

\* C14: on every step that enters Ready after a catalog load, the list,
\* state and removal filters are All, the text is empty, the active user
\* is user 0 and the filtered view is the whole table of user 0.
C14_DefaultsAtReady ==
    [][(loading_state.phase # "Ready" /\ loading_state'.phase = "Ready")
       => /\ selected_list' = "All"
          /\ selected_package_state' = "All"
          /\ selected_removal' = "All"
          /\ input_value' = <<>>
          /\ selected_user' = Some(0)
          /\ filtered_packages' =
                 [k \in 1..TableLen(phone_packages', 0) |-> k - 1]]_vars

\* C15: whenever ApplyFilters replaces a package table by the result of a
\* reload and the view is Ready again, the selection is empty, the three
\* counters are zero and the text filter is empty.
C15_NothingOutlivesReload ==
    [][\A c \in BagToSet(inflight), packages \in FetchedTables :
          (phone_packages # <<>> /\ ApplyFilters(c, packages))
          => /\ selection'.selected_packages = <<>>
             /\ selection'.enabled = 0
             /\ selection'.disabled = 0
             /\ selection'.uninstalled = 0
             /\ input_value' = <<>>]_vars

\* The records whose state a step changes, as pairs of user and index.
Changed ==
    {ui \in UserList \X PackageIndexes :
        /\ InRange(phone_packages, ui[1], ui[2])
        /\ InRange(phone_packages', ui[1], ui[2])
        /\ phone_packages'[ui[1] + 1][ui[2] + 1].state
               # phone_packages[ui[1] + 1][ui[2] + 1].state}

\* C16: a successful first-command outcome of a command dispatched for
\* user 0 changes the state of exactly one record: row index of the
\* override user when multi_user_mode is on and the outcome carries one,
\* otherwise row index of user 0, whoever is the active user on delivery.
C16_OneRecordChanges ==
    [][\A p \in BagToSet(inflight) :
          (ChangePackageState(p, TRUE) /\ ~panicked')
          => Changed =
                 {<< IF settings.multi_user_mode /\ p.i_user # None
                     THEN p.i_user[1] ELSE 0,
                     p.index >>}]_vars

\* The sum of the three counters.
CounterSum == selection.enabled + selection.disabled + selection.uninstalled

\* C17: a successful outcome for an index that is not in the selection
\* leaves the selection and the three counters unchanged; for an index in
\* the selection it removes the index and decrements exactly one counter
\* by one.
C17_RemoveIfPresent ==
    [][\A p \in BagToSet(inflight) :
          (ChangePackageState(p, TRUE) /\ ~panicked')
          => IF p.index \notin Selected
             THEN UNCHANGED selection
             ELSE /\ Selected' = Selected \ {p.index}
                  /\ CounterSum' = CounterSum - 1
                  /\ \A st \in States : Counter(st)' <= Counter(st)]_vars

\* C18: Ready is entered only from LoadingPackages, LoadingPackages only
\* from DownloadingList and RestoringDevice only by a restore notification,
\* which changes no package record, selection or filter field.
C18_PhaseOrder ==
    [][LET from == loading_state.phase
           to == loading_state'.phase
       IN  /\ (to = "Ready" /\ from # to) => from = "LoadingPackages"
           /\ (to = "LoadingPackages" /\ from # to) => from = "DownloadingList"
           /\ (to = "RestoringDevice" /\ from # to)
              => /\ \E ok \in BOOLEAN, index \in PackageIndexes :
                       RestoringDevice(ok, index)
                 /\ UNCHANGED << phone_packages, selection,
                                 filtered_packages, selected_list,
                                 selected_package_state, selected_removal,
                                 selected_user, input_value >>]_vars

\* The loading phase is before Ready.
BeforeReady ==
    loading_state.phase \in {"FindingPhones", "DownloadingList",
                             "LoadingPackages"}

\* C19: while the loading phase is before Ready, a command outcome or a
\* restore notification is handled without indexing, reading or changing
\* the package table, the selection or the filtered view.
C19_NoDataBeforeReady ==
    [][BeforeReady =>
          /\ \A p \in BagToSet(inflight), ok \in BOOLEAN :
                ChangePackageState(p, ok)
                => /\ ~panicked'
                   /\ UNCHANGED << phone_packages, selection,
                                   filtered_packages >>
          /\ \A ok \in BOOLEAN, index \in PackageIndexes :
                RestoringDevice(ok, index)
                => /\ ~panicked'
                   /\ InRange(phone_packages, i_user, index)
                      => loading_state'.text # Row(index).name]_vars

\* C20: when the outcome of a package command is a failure, whether it
\* arrives as a command result or as a restore notification, the text of
\* the loading phase becomes the error marker.
C20_FailureShown ==
    [][/\ \A p \in BagToSet(inflight) :
             ChangePackageState(p, FALSE)
             => loading_state'.text = << "Error [TODO]" >>
       /\ \A index \in PackageIndexes :
             RestoringDevice(FALSE, index)
             => loading_state'.text = << "Error [TODO]" >>]_vars

\* C21: in every Ready state a package of the active user's table has its
\* selected flag set exactly when its index is in the selection, after
\* refused Unsafe toggles, toggle-all, user switches and outcomes applied
\* to another user's row.
C21_FlagIffSelected ==
    (Ready /\ selected_user # None) =>
        \A i \in 0..(TableLen(phone_packages, i_user) - 1) :
            Row(i).selected <=> i \in Selected

\* C22: no handler indexes a package table out of range: every index of
\* the selection, of the filtered view, of the focused package and of a
\* command outcome is valid for the table it is used against, also after
\* a switch to a user whose table has another length.
C22_NoIndexOutOfRange == ~panicked

\* The package table, the selection and the filtered view.
Data ==
    [phone_packages |-> phone_packages, selection |-> selection,
     filtered_packages |-> filtered_packages]

\* Handling the results okp of p and okq of q gives the same table,
\* selection, counters and view in both orders.
Commute(p, okp, q, okq) ==
    ChangePackageStateOf(ChangePackageStateOf(Data, p, okp), q, okq)
        = ChangePackageStateOf(ChangePackageStateOf(Data, q, okq), p, okp)

\* C23: the outcomes of the first commands a bulk action dispatches for
\* distinct indices of the selection leave the same package table,
\* selection and counters in whichever order they are handled, for every
\* mix of successes and failures; ChangePackageStateOf is what the handler
\* does on every step.
C23_OrderIndependent ==
    /\ [](Ready =>
            \A i \in Selected, j \in Selected, okp \in BOOLEAN,
               okq \in BOOLEAN :
                ( /\ i # j
                  /\ \A k \in {i, j} :
                        /\ InRange(phone_packages, i_user, k)
                        /\ InRange(phone_packages,
                                   TargetUser(Commands(k)[1]), k) )
                => Commute(Commands(i)[1], okp, Commands(j)[1], okq))
    /\ [][\A p \in BagToSet(inflight), ok \in BOOLEAN :
             (ChangePackageState(p, ok) /\ ~panicked')
             => Data' = ChangePackageStateOf(Data, p, ok)]_vars

\* A bulk action has dispatched first commands for two distinct indices
\* and one of them has been handled.
C23_Witness ==
    /\ Ready
    /\ last_outcome.res \in {"Ok", "Err"}
    /\ \E q \in Pending("adb") :
          /\ q.msg = "ChangePackageState"
          /\ q.index # last_outcome.index

====
